---- MODULE Spec2Model ----
(***************************************************************************)
(* Connection / session lifecycle and audio-capture pipeline of the voice *)
(* transcription bot: VoiceConnectionHandler, SessionManager and          *)
(* AudioRecorder, driven by the platform's voice-state events.            *)
(*                                                                         *)
(* Every async handler is a task whose steps are the stretches of code     *)
(* between two awaits on an external completion (transport Ready, write    *)
(* stream flushed, ffmpeg finished, transcription backend answered).       *)
(* A stretch that only awaits already-resolved promises runs in the same   *)
(* microtask checkpoint and is part of the step that precedes it.          *)
(***************************************************************************)
EXTENDS Integers, Sequences, FiniteSets, Bags, TLC

\* ---------------------------------------------------------------- bounds
Users == {"u1", "u2"}
Channels == {"c1", "c2"}
MaxEvents == 4
MaxEventsSolo == 6
MaxEventsMulti == 3
MaxEventsApi == 4
MaxEventsLive == 3
MaxEventsNet == 3
MaxEventsAudio == 3
MaxEventsStale == 4
MaxChunks == 2
MaxEventsCall == 4
MaxEventsApiMulti == 4
MaxCalls == 2
MaxEventsRec == 4
MaxStack == 4
SizeDelta == 1

NoChannel == "none"
NoUser == "nobody"
NoConnection == [gen |-> 0, sessionId |-> 0]
NoPipe == [ch |-> NoChannel, gen |-> 0]
NoCall == [op |-> "none", out |-> "none"]

VARIABLES
  loc,              \* platform: voice channel each user is in (channel.members)
  scope,            \* users and channels taking part in this run
  budget,           \* external events still to come
  connections,      \* VoiceConnectionHandler.connections: channelId -> {connection, sessionId}
  liveGen,          \* per channel: the transport connection object that is not destroyed (0: none)
  genCount,         \* per channel: transport connection objects created so far
  activeSessions,   \* SessionManager.activeSessions: channelId -> session object (its id)
  sessions,         \* session objects and their sessions row: participants, status, participant_count
  userSessions,     \* SessionManager.userSessions: userId -> sessionId
  recordings,       \* AudioRecorder.recordings: userId -> recording
  recs,             \* recording objects: userId, sessionId, capture state
  dbParticipants,   \* participants table: bag of rows
  dbTranscriptions, \* transcriptions table: bag of rows
  emitted,          \* per session: number of 'sessionEnded' events emitted
  timers,           \* per channel: pending auto-leave timeouts
  tasks,            \* async handler invocations in flight, in start order
  pipes,            \* per user: the decoder pipeline that feeds handleAudioData (channel, connection)
  hist              \* history kept for the properties (no handler reads it)

vars == <<loc, scope, budget, connections, liveGen, genCount, activeSessions,
          sessions, userSessions, recordings, recs, dbParticipants,
          dbTranscriptions, emitted, timers, tasks, pipes, hist>>

\* The whole state as one record, so that a handler's synchronous call chain
\* is a composition of functions on the state.
Cur ==
  [loc |-> loc, scope |-> scope, budget |-> budget, connections |-> connections,
   liveGen |-> liveGen, genCount |-> genCount, activeSessions |-> activeSessions,
   sessions |-> sessions, userSessions |-> userSessions, recordings |-> recordings,
   recs |-> recs, dbParticipants |-> dbParticipants,
   dbTranscriptions |-> dbTranscriptions, emitted |-> emitted, timers |-> timers,
   tasks |-> tasks, pipes |-> pipes, hist |-> hist]

Commit(s) ==
  /\ loc' = s.loc
  /\ scope' = s.scope
  /\ budget' = s.budget
  /\ connections' = s.connections
  /\ liveGen' = s.liveGen
  /\ genCount' = s.genCount
  /\ activeSessions' = s.activeSessions
  /\ sessions' = s.sessions
  /\ userSessions' = s.userSessions
  /\ recordings' = s.recordings
  /\ recs' = s.recs
  /\ dbParticipants' = s.dbParticipants
  /\ dbTranscriptions' = s.dbTranscriptions
  /\ emitted' = s.emitted
  /\ timers' = s.timers
  /\ tasks' = SelectSeq(s.tasks, LAMBDA t : t.pc # "done")
  /\ pipes' = s.pipes
  /\ hist' = s.hist

\* ------------------------------------------------------------- helpers
RECURSIVE FoldSet(_, _, _)
\* Apply Op(acc, x) for every x of the set S (forEach / for..of).
FoldSet(Op(_, _), acc, S) ==
  IF S = {} THEN acc
  ELSE LET x == CHOOSE y \in S : TRUE
       IN FoldSet(Op, Op(acc, x), S \ {x})

BagAdd(B, row) == B (+) SetToBag({row})

Members(s, c) == {u \in s.scope.users : s.loc[u] = c}

NewTask(kind, c, u) ==
  [kind |-> kind, ch |-> c, user |-> u, sid |-> 0, sess |-> 0, gen |-> 0,
   stops |-> {}, pc |-> "done", result |-> "none", next |-> NoChannel,
   cmd |-> FALSE]

Spawn(s, t) == [s EXCEPT !.tasks = Append(@, t)]

\* ---------------------------------------------------------- AudioRecorder
\* A recording object. state is the capture's state; the other three fields
\* are history kept for the properties: who first asked for the stop (0: nobody,
\* ByParticipant: removeParticipant, a session id: that session's endSession),
\* the backend's first answer to an endSession that processed the recording,
\* and whether a handleUserLeave of the same user was still in flight when the
\* recording was started. wav is the converted file: "none" before convertToWav
\* wrote it, then "present", and "deleted" once it was unlinked.
ByParticipant == -1

LeaveInFlight(s, u) ==
  \E i \in DOMAIN s.tasks : s.tasks[i].kind \in {"userLeave", "remove"} /\ s.tasks[i].user = u

StartRecording(s, u, sid) ==
  LET r == Len(s.recs) + 1
  IN [s EXCEPT !.recs = Append(@, [userId |-> u, sessionId |-> sid, state |-> "Recording",
                                    endedBy |-> 0, tr |-> "none", sink |-> <<>>,
                                    during |-> LeaveInFlight(s, u), wav |-> "none",
                                    late |-> 0]),
               !.recordings[u] = r]

IsRecording(s, u) == s.recordings[u] # 0

\* The synchronous part of stopRecording for a recording that is in the map:
\* recording.stream.end(callback).
StreamEnd(s, r, by) ==
  IF s.recs[r].state = "Recording"
  THEN [s EXCEPT !.recs[r].state = "Stopping", !.recs[r].endedBy = by]
  ELSE s

\* ---------------------------------------------------------- DatabaseQueries
DbAddParticipant(s, sid, u) ==
  [s EXCEPT !.dbParticipants = BagAdd(@, [session_id |-> sid, user_id |-> u, left |-> FALSE])]

\* UPDATE participants SET left_at = ? WHERE session_id = ? AND user_id = ? AND left_at IS NULL
DbRemoveParticipant(s, sid, u) ==
  LET open == [session_id |-> sid, user_id |-> u, left |-> FALSE]
      closed == [session_id |-> sid, user_id |-> u, left |-> TRUE]
      n == CopiesIn(open, s.dbParticipants)
  IN IF n = 0 THEN s
     ELSE [s EXCEPT !.dbParticipants =
             (@ (-) [x \in {open} |-> n]) (+) [x \in {closed} |-> n]]

DbEndSession(s, sid, count) ==
  [s EXCEPT !.sessions[sid].status = "completed",
            !.sessions[sid].participant_count = count]

DbAddTranscription(s, sid, r, kind) ==
  [s EXCEPT !.dbTranscriptions = BagAdd(@, [session_id |-> sid, rec |-> r, kind |-> kind])]

\* ---------------------------------------------------------- SessionManager
CreateSession(s, c) ==
  LET sid == Len(s.sessions) + 1
  IN [s EXCEPT !.sessions = Append(@, [channel |-> c, participants |-> {},
                                         status |-> "active", participant_count |-> 0]),
               !.emitted = Append(@, 0),
               !.activeSessions[c] = sid]

\* Mutant of AddParticipant: without the check for an active session.
AddParticipantUnchecked(s, sid, u, c) ==
  LET sess == s.activeSessions[c]
      s1 == IF sess = 0 THEN s ELSE [s EXCEPT !.sessions[sess].participants = @ \cup {u}]
      s2 == DbAddParticipant(s1, sid, u)
      s3 == [s2 EXCEPT !.userSessions[u] = sid]
  IN StartRecording(s3, u, sid)

AddParticipant(s, sid, u, c) ==
  LET sess == s.activeSessions[c]
  IN IF sess = 0 THEN s
     ELSE LET s1 == [s EXCEPT !.sessions[sess].participants = @ \cup {u}]
              s2 == DbAddParticipant(s1, sid, u)
              s3 == [s2 EXCEPT !.userSessions[u] = sid]
          IN StartRecording(s3, u, sid)

\* removeParticipant after its awaits: the rows, the set and the tracking map.
RemoveParticipantTail(s, sid, sess, u) ==
  LET s1 == DbRemoveParticipant(s, sid, u)
  IN [s1 EXCEPT !.sessions[sess].participants = @ \ {u},
                !.userSessions[u] = 0]

\* endSession after its awaits.
EndSessionTail(s, c, sess) ==
  LET Close(acc, u) ==
        IF acc.userSessions[u] = sess
        THEN [DbRemoveParticipant(acc, sess, u) EXCEPT !.userSessions[u] = 0]
        ELSE acc
      s1 == FoldSet(Close, s, s.sessions[sess].participants)
      s2 == DbEndSession(s1, sess, Cardinality(s.sessions[sess].participants))
  IN [s2 EXCEPT !.activeSessions[c] = 0]


\* ------------------------------------------------- VoiceConnectionHandler
HasConnection(s, c) == s.connections[c] # NoConnection

\* connection.destroy() of the transport library throws when the connection
\* object was destroyed before.
DestroyThrows(s, c, conn) == s.liveGen[c] # conn.gen

\* SessionManager.generateSessionReport is entered for session sid (the
\* history counts the calls; the report's content is not modelled).
GenerateSessionReport(s, sid) == [s EXCEPT !.hist.reports = BagAdd(@, sid)]

\* The 'sessionEnded' listener of the application: it generates the report.
OnSessionEnded(s, sid) == GenerateSessionReport(s, sid)

\* leaveChannel after `await endSession`: destroy, delete, emit (the emit
\* runs the listener up to its first await).
LeaveChannelTail(s, c, conn) ==
  IF DestroyThrows(s, c, conn) THEN s
  ELSE OnSessionEnded([s EXCEPT !.liveGen[c] = 0,
                                !.connections[c] = NoConnection,
                                !.emitted[conn.sessionId] = @ + 1],
                      conn.sessionId)

\* stopAllRecordings: every key of the recorder's map.
RecordingKeys(s) == {u \in Users : s.recordings[u] # 0}

\* leaveChannel up to the first await that needs an external completion.
LeaveChannel(s, c) ==
  LET conn == s.connections[c]
      sess == s.activeSessions[c]
      keys == RecordingKeys(s)
      EndOne(acc, u) == StreamEnd(acc, acc.recordings[u], sess)
  IN IF conn = NoConnection THEN s
     ELSE IF sess = 0 THEN LeaveChannelTail(s, c, conn)
     ELSE IF keys = {} THEN LeaveChannelTail(EndSessionTail(s, c, sess), c, conn)
     ELSE Spawn(FoldSet(EndOne, s, keys),
                [NewTask("leave", c, NoUser) EXCEPT
                   !.sid = conn.sessionId, !.sess = sess, !.gen = conn.gen,
                   !.stops = {<<s.recordings[u], "flush">> : u \in keys},
                   !.pc = "awaitStop"])

\* joinChannel up to `await entersState(connection, Ready)`; joinVoiceChannel
\* hands back the channel's connection object when it is not destroyed.
JoinChannel(s, c) ==
  IF HasConnection(s, c) THEN s
  ELSE LET reuse == s.liveGen[c] # 0
           gen == IF reuse THEN s.liveGen[c] ELSE s.genCount[c] + 1
           s1 == IF reuse THEN s
                 ELSE [s EXCEPT !.liveGen[c] = gen, !.genCount[c] = gen]
       IN Spawn(s1, [NewTask("join", c, NoUser) EXCEPT !.gen = gen, !.pc = "awaitReady"])

\* Mutant of JoinChannelReady: the members are added a second time, the way
\* handleUserJoin would add them.
JoinChannelReadyAddsTwice(s, c, gen) ==
  LET s1 == CreateSession(s, c)
      sid == Len(s1.sessions)
      s2 == [s1 EXCEPT !.connections[c] = [gen |-> gen, sessionId |-> sid]]
      Add(acc, u) == AddParticipant(AddParticipant(acc, sid, u, c), sid, u, c)
  IN FoldSet(Add, s2, Members(s2, c))

\* joinChannel after the connection is Ready.
JoinChannelReady(s, c, gen) ==
  LET s1 == CreateSession(s, c)
      sid == Len(s1.sessions)
      s2 == [s1 EXCEPT !.connections[c] = [gen |-> gen, sessionId |-> sid]]
      Add(acc, u) == AddParticipant(acc, sid, u, c)
  IN FoldSet(Add, s2, Members(s2, c))

HandleUserJoin(s, u, c) ==
  IF ~HasConnection(s, c) THEN s
  ELSE AddParticipant(s, s.connections[c].sessionId, u, c)

\* handleVoiceStateUpdate, "joined a channel" branch (also the second half of
\* a channel switch).
JoinPart(s, u, c) ==
  IF c = NoChannel THEN s
  ELSE IF ~HasConnection(s, c) THEN JoinChannel(s, c)
  ELSE HandleUserJoin(s, u, c)

\* handleUserLeave after `await removeParticipant`: the emptiness check that
\* arms the auto-leave timeout.
HandleUserLeaveTail(s, c) ==
  IF Members(s, c) = {} THEN [s EXCEPT !.timers[c] = @ + 1] ELSE s

AfterUserLeave(s, u, c, next) == JoinPart(HandleUserLeaveTail(s, c), u, next)

\* Mutant of HandleUserLeave: stopRecording starts convertToWav right after
\* stream.end, not in its callback.
HandleUserLeaveConvertsAtOnce(s, u, c, next) ==
  LET conn == s.connections[c]
      sess == s.activeSessions[c]
      r == s.recordings[u]
  IN IF conn = NoConnection THEN JoinPart(s, u, next)
     ELSE IF sess = 0 \/ s.userSessions[u] = 0 THEN AfterUserLeave(s, u, c, next)
     ELSE IF r = 0
       THEN AfterUserLeave(RemoveParticipantTail(s, conn.sessionId, sess, u), u, c, next)
     ELSE Spawn(StreamEnd(s, r, ByParticipant),
                [NewTask("userLeave", c, u) EXCEPT
                   !.sid = conn.sessionId, !.sess = sess, !.gen = conn.gen,
                   !.stops = {<<r, "conv">>}, !.pc = "awaitStop", !.next = next])

\* handleUserLeave -> removeParticipant -> stopRecording, up to stream.end.
HandleUserLeave(s, u, c, next) ==
  LET conn == s.connections[c]
      sess == s.activeSessions[c]
      r == s.recordings[u]
  IN IF conn = NoConnection THEN JoinPart(s, u, next)
     ELSE IF sess = 0 \/ s.userSessions[u] = 0 THEN AfterUserLeave(s, u, c, next)
     ELSE IF r = 0
       THEN AfterUserLeave(RemoveParticipantTail(s, conn.sessionId, sess, u), u, c, next)
     ELSE Spawn(StreamEnd(s, r, ByParticipant),
                [NewTask("userLeave", c, u) EXCEPT
                   !.sid = conn.sessionId, !.sess = sess, !.gen = conn.gen,
                   !.stops = {<<r, "flush">>}, !.pc = "awaitStop", !.next = next])

\* removeParticipant called on its own, up to stream.end.
RemoveParticipant(s, sid, u, c) ==
  LET sess == s.activeSessions[c]
      r == s.recordings[u]
  IN IF sess = 0 \/ s.userSessions[u] = 0 THEN s
     ELSE IF r = 0 THEN RemoveParticipantTail(s, sid, sess, u)
     ELSE Spawn(StreamEnd(s, r, ByParticipant),
                [NewTask("remove", c, u) EXCEPT
                   !.sid = sid, !.sess = sess,
                   !.stops = {<<r, "flush">>}, !.pc = "awaitStop"])

\* endSession called on its own, up to the stream.end of every recording.
EndSession(s, c) ==
  LET sess == s.activeSessions[c]
      keys == RecordingKeys(s)
      EndOne(acc, u) == StreamEnd(acc, acc.recordings[u], sess)
  IN IF sess = 0 THEN s
     ELSE IF keys = {} THEN EndSessionTail(s, c, sess)
     ELSE Spawn(FoldSet(EndOne, s, keys),
                [NewTask("end", c, NoUser) EXCEPT
                   !.sid = sess, !.sess = sess,
                   !.stops = {<<s.recordings[u], "flush">> : u \in keys},
                   !.pc = "awaitStop"])

\* ------------------------------------------------------- task bookkeeping
SetStop(stops, r, st) == {p \in stops : p[1] # r} \cup {<<r, st>>}

StopRecs(t) == {p[1] : p \in t.stops}

TranscribeOutcomes == {"valid", "empty", "error"}

AllStops(t, S) == \A p \in t.stops : p[2] \in S

\* The write stream of recording r has flushed: every end callback runs,
\* deletes the user's map entry and starts its conversion.
StreamFinished(s, r) ==
  LET u == s.recs[r].userId
      Conv(t) == IF <<r, "flush">> \in t.stops
                 THEN [t EXCEPT !.stops = SetStop(@, r, "conv")] ELSE t
  IN [s EXCEPT !.recs[r].state = "Converting",
               !.recordings[u] = 0,
               !.tasks = [i \in DOMAIN @ |-> Conv(@[i])]]

\* stopAllRecordings' Promise.all over the stops of an endSession, and
\* stopRecording's single promise in removeParticipant.
StopSettled(t, r, ok) ==
  LET t1 == [t EXCEPT !.stops = SetStop(@, r, IF ok THEN "ok" ELSE "failed")]
  IN IF t.pc # "awaitStop" THEN t1
     ELSE IF ~ok THEN [t1 EXCEPT !.pc = "done", !.result = "threw"]
     ELSE IF AllStops(t1, {"ok"})
       THEN [t1 EXCEPT !.stops = {<<p[1], "trans">> : p \in @}, !.pc = "awaitTranscribe"]
     ELSE t1

ConvertSettled(s, i, r, ok) ==
  LET st == IF s.recs[r].state # "Converting" THEN s.recs[r].state
            ELSE IF ok THEN "Finalized" ELSE "Failed"
  IN [s EXCEPT !.recs[r].state = st,
               !.recs[r].wav = IF @ = "none" /\ st = "Finalized" THEN "present" ELSE @,
               !.tasks[i] = StopSettled(@, r, ok)]

\* cleanupAudioFile(recording.wavPath): unlink the file if it exists.
CleanupAudioFile(s, r) ==
  IF s.recs[r].wav = "present" THEN [s EXCEPT !.recs[r].wav = "deleted"] ELSE s

\* Mutant of ProcessRecording: an answer carrying the error marker is dropped
\* like an answer without text.
ProcessRecordingDropsErrors(s, sid, r, outcome) ==
  IF outcome \in {"empty", "error"} THEN CleanupAudioFile(s, r)
  ELSE DbAddTranscription(s, sid, r, outcome)

\* processRecording after `await transcribeAudio`.
ProcessRecording(s, sid, r, outcome) ==
  IF outcome = "empty" THEN CleanupAudioFile(s, r)
  ELSE DbAddTranscription(s, sid, r, outcome)

\* leaveCommand after `await leaveChannel` returned the session id: it
\* generates (and sends) the report itself.
LeaveCommandTail(s, sid) == GenerateSessionReport(s, sid)

\* The rest of the handler once its last transcription has been processed.
TaskTail(s, i) ==
  LET t == s.tasks[i]
      conn == [gen |-> t.gen, sessionId |-> t.sid]
  IN IF t.kind = "userLeave"
     THEN LET s1 == RemoveParticipantTail(s, t.sid, t.sess, t.user)
              s2 == [s1 EXCEPT !.tasks[i].pc = "done", !.tasks[i].result = "ok"]
          IN AfterUserLeave(s2, t.user, t.ch, t.next)
     ELSE IF t.kind = "remove"
     THEN [RemoveParticipantTail(s, t.sid, t.sess, t.user) EXCEPT
             !.tasks[i].pc = "done", !.tasks[i].result = "ok"]
     ELSE IF t.kind = "end"
     THEN [EndSessionTail(s, t.ch, t.sess) EXCEPT
             !.tasks[i].pc = "done", !.tasks[i].result = "ok"]
     ELSE LET s1 == EndSessionTail(s, t.ch, t.sess)
              threw == DestroyThrows(s1, t.ch, conn)
              s2 == LeaveChannelTail(s1, t.ch, conn)
              s3 == IF t.cmd /\ ~threw THEN LeaveCommandTail(s2, t.sid) ELSE s2
          IN [s3 EXCEPT !.tasks[i].pc = "done",
                        !.tasks[i].result = IF threw THEN "threw" ELSE "ok"]

TranscribeSettled(s, i, r, outcome) ==
  LET t == s.tasks[i]
      sid == IF t.kind \in {"userLeave", "remove"} THEN t.sid ELSE t.sess
      s1 == ProcessRecording(s, sid, r, outcome)
      s2 == [s1 EXCEPT !.tasks[i].stops = SetStop(@, r, outcome),
                       !.recs[r].tr = IF @ = "none" /\ t.kind \in {"leave", "end"}
                                      THEN outcome ELSE @]
  IN IF AllStops(s2.tasks[i], TranscribeOutcomes) THEN TaskTail(s2, i) ELSE s2

\* ----------------------------------------------------------------- actions
InitWith(users, channels, events) ==
  /\ loc = [u \in Users |-> NoChannel]
  /\ scope = [users |-> users, channels |-> channels]
  /\ budget = events
  /\ connections = [c \in Channels |-> NoConnection]
  /\ liveGen = [c \in Channels |-> 0]
  /\ genCount = [c \in Channels |-> 0]
  /\ activeSessions = [c \in Channels |-> 0]
  /\ sessions = <<>>
  /\ userSessions = [u \in Users |-> 0]
  /\ recordings = [u \in Users |-> 0]
  /\ recs = <<>>
  /\ dbParticipants = EmptyBag
  /\ dbTranscriptions = EmptyBag
  /\ emitted = <<>>
  /\ timers = [c \in Channels |-> 0]
  /\ tasks = <<>>
  /\ pipes = [u \in Users |-> NoPipe]
  /\ hist = [rejoined |-> [c \in Channels |-> 0], recovered |-> 0, lost |-> {},
             fed |-> 0, stale |-> {}, ret |-> NoCall,
             reports |-> EmptyBag]

\* One channel, both users.
Init == InitWith(Users, {"c1"}, MaxEvents)

\* One channel, one user, a longer run.
InitSolo == InitWith({"u1"}, {"c1"}, MaxEventsSolo)

\* SessionManager alone: one channel, both users.
InitApi == InitWith(Users, {"c1"}, MaxEventsApi)

\* One channel, both users, a short run for the progress properties.
InitLive == InitWith(Users, {"c1"}, MaxEventsLive)

\* One channel, both users, with transport events.
InitNet == InitWith(Users, {"c1"}, MaxEventsNet)

\* One channel, both users, with audio.
InitAudio == InitWith(Users, {"c1"}, MaxEventsAudio)

\* One channel, one user, with stale notifications.
InitStale == InitWith({"u1"}, {"c1"}, MaxEventsStale)

\* The services called directly: one channel, both users.
InitCall == InitWith(Users, {"c1"}, MaxEventsCall)

\* SessionManager alone: both channels, both users.
InitApiMulti == InitWith(Users, Channels, MaxEventsApiMulti)

\* TranscriptionService alone.
InitSize == InitWith({}, {}, MaxCalls)

\* SessionManager and AudioRecorder called directly: one channel, one user.
InitRec == InitWith({"u1"}, {"c1"}, MaxEventsRec)

\* Both channels, both users.
InitMulti == InitWith(Users, Channels, MaxEventsMulti)

Event(s) == [s EXCEPT !.budget = @ - 1]

\* The platform's member list once user u is in channel c. Every auto-leave
\* timeout of c that is pending now was armed before this join.
Arrive(s, u, c) == [s EXCEPT !.loc[u] = c, !.hist.rejoined[c] = s.timers[c]]

\* The platform's member list once user u is in no channel; the user's audio
\* stops, and with it the subscription that fed the decoder.
Depart(s, u) == [s EXCEPT !.loc[u] = NoChannel, !.pipes[u] = NoPipe]

\* VoiceStateUpdate: a user who was in no channel joins c.
UserJoins(u, c) ==
  /\ budget > 0
  /\ loc[u] = NoChannel
  /\ Commit(JoinPart(Arrive(Event(Cur), u, c), u, c))

\* VoiceStateUpdate: a user leaves the voice channel they were in.
UserLeaves(u) ==
  /\ budget > 0
  /\ loc[u] # NoChannel
  /\ Commit(HandleUserLeave(Depart(Event(Cur), u), u, loc[u], NoChannel))

\* VoiceStateUpdate: a user moves to another channel.
UserSwitches(u, c) ==
  /\ budget > 0
  /\ loc[u] # NoChannel
  /\ loc[u] # c
  /\ Commit(HandleUserLeave(Arrive(Depart(Event(Cur), u), u, c), u, loc[u], c))

\* leaveCommand past its guards: leaveChannel, then the report. A leaveChannel
\* that has to wait is marked as the command's; one that returns at once is
\* followed by the report in the same step, one that throws by nothing.
LeaveCommandRun(s, c) ==
  LET sid == s.connections[c].sessionId
      s1 == LeaveChannel(s, c)
      n == Len(s1.tasks)
  IN IF n > Len(s.tasks) THEN [s1 EXCEPT !.tasks[n].cmd = TRUE]
     ELSE IF HasConnection(s1, c) THEN s1
     ELSE LeaveCommandTail(s1, sid)

\* leaveCommand for a channel the bot records.
LeaveCommand(c) ==
  /\ budget > 0
  /\ HasConnection(Cur, c)
  /\ Commit(LeaveCommandRun(Event(Cur), c))

\* The oldest 5 s auto-leave timeout armed by handleUserLeave fires (equal
\* delays: the timeouts of a channel fire in the order they were armed).
TimerFire(c) ==
  /\ timers[c] > 0
  /\ LET s == [Cur EXCEPT !.timers[c] = @ - 1,
                          !.hist.rejoined[c] = IF @ > 0 THEN @ - 1 ELSE 0]
     IN Commit(IF Members(s, c) = {} THEN LeaveChannel(s, c) ELSE s)

\* The joinChannel calls that await Ready on c's live connection object.
AwaitingReady(s, c) ==
  {i \in DOMAIN s.tasks : /\ s.tasks[i].kind = "join"
                           /\ s.tasks[i].pc = "awaitReady"
                           /\ s.tasks[i].ch = c
                           /\ s.tasks[i].gen = s.liveGen[c]}

\* The connection object emits Ready once: every entersState that waits on it
\* resolves, and the joinChannel calls resume one after the other, in the
\* order in which they started to wait.
ResumeJoins(s, c, waiting) ==
  LET order == SelectSeq([i \in 1..Len(s.tasks) |-> i], LAMBDA i : i \in waiting)
      Resume(acc, i) == [JoinChannelReady(acc, c, acc.tasks[i].gen) EXCEPT
                           !.tasks[i].pc = "done", !.tasks[i].result = "ok"]
      after[k \in 0..Len(order)] ==
        IF k = 0 THEN s ELSE Resume(after[k - 1], order[k])
  IN after[Len(order)]

\* The transport connection of channel c becomes Ready.
JoinReady(c) ==
  /\ AwaitingReady(Cur, c) # {}
  /\ Commit(ResumeJoins(Cur, c, AwaitingReady(Cur, c)))

\* Mutant of JoinTimeout: the connection entry is stored before the wait for
\* Ready and is still there when the wait fails.
JoinTimeoutKeepsEntry(i) ==
  /\ tasks[i].pc = "awaitReady"
  /\ Commit([Cur EXCEPT !.tasks[i].pc = "done", !.tasks[i].result = "threw",
                        !.connections[tasks[i].ch] = [gen |-> tasks[i].gen, sessionId |-> 0]])

\* entersState rejects after 30 s.
JoinTimeout(i) ==
  /\ tasks[i].pc = "awaitReady"
  /\ Commit([Cur EXCEPT !.tasks[i].pc = "done", !.tasks[i].result = "threw"])

\* The 'finish' of a recording's write stream.
Flush(r) ==
  /\ recs[r].state = "Stopping"
  /\ Commit(StreamFinished(Cur, r))

\* ffmpeg ends or errors for one conversion.
ConvertDone(i, r, ok) ==
  /\ <<r, "conv">> \in tasks[i].stops
  /\ Commit(ConvertSettled(Cur, i, r, ok))

\* The transcription backend answers (text, no text, or an error).
TranscribeDone(i, r, outcome) ==
  /\ <<r, "trans">> \in tasks[i].stops
  /\ Commit(TranscribeSettled(Cur, i, r, outcome))

Completions ==
  \/ \E c \in scope.channels : TimerFire(c)
  \/ \E c \in scope.channels : JoinReady(c)
  \/ \E i \in DOMAIN tasks : JoinTimeout(i)
  \/ \E r \in DOMAIN recs : Flush(r)
  \/ \E i \in DOMAIN tasks, r \in DOMAIN recs, ok \in BOOLEAN : ConvertDone(i, r, ok)
  \/ \E i \in DOMAIN tasks, r \in DOMAIN recs, o \in TranscribeOutcomes : TranscribeDone(i, r, o)

\* ffmpeg neither ends nor errors: the conversion never settles.
ConvertHang(i, r) ==
  /\ <<r, "conv">> \in tasks[i].stops
  /\ Commit([Cur EXCEPT !.tasks[i].stops = SetStop(@, r, "hung")])

\* ----------------------------------------------------------------- audio
\* Mutant of HandleAudioData: no chunk is taken while some recording's stream
\* is being ended.
HandleAudioDataBlocks(s, u, chunk) ==
  LET r == s.recordings[u]
  IN IF /\ r # 0
        /\ s.recs[r].state = "Recording"
        /\ \A q \in DOMAIN s.recs : s.recs[q].state # "Stopping"
     THEN [s EXCEPT !.recs[r].sink = Append(@, chunk)]
     ELSE s

\* Mutant of HandleAudioData: the chunk goes to the front of the sink.
HandleAudioDataPrepends(s, u, chunk) ==
  LET r == s.recordings[u]
  IN IF r # 0 /\ s.recs[r].state = "Recording"
     THEN [s EXCEPT !.recs[r].sink = <<chunk>> \o @]
     ELSE s

\* handleAudioData: stream.write on the recording the map holds for the user,
\* whatever the state of its stream. The entry stays in the map from
\* stream.end until the end callback: a write in between reaches a stream that
\* was ended, which takes no more bytes and reports the write as an error
\* (counted in late).
HandleAudioData(s, u, chunk) ==
  LET r == s.recordings[u]
  IN IF r = 0 THEN s
     ELSE IF s.recs[r].state = "Recording"
       THEN [s EXCEPT !.recs[r].sink = Append(@, chunk)]
     ELSE [s EXCEPT !.recs[r].late = @ + 1]

\* receiver.speaking 'start': subscribe and, when the user is being recorded,
\* pipe the opus stream through a decoder into handleAudioData.
SpeakingStart(s, u, c) ==
  IF IsRecording(s, u)
  THEN [s EXCEPT !.pipes[u] = [ch |-> c, gen |-> s.liveGen[c]]]
  ELSE s

PipeLive(s, u) ==
  /\ s.pipes[u] # NoPipe
  /\ s.loc[u] = s.pipes[u].ch
  /\ s.liveGen[s.pipes[u].ch] = s.pipes[u].gen

\* A user in a recorded channel starts to speak.
SpeakStart(u) ==
  /\ loc[u] # NoChannel
  /\ HasConnection(Cur, loc[u])
  /\ connections[loc[u]].gen = liveGen[loc[u]]
  /\ pipes[u] = NoPipe
  /\ Commit(SpeakingStart(Cur, u, loc[u]))

\* 300 ms of silence end the subscription.
SpeakEnd(u) ==
  /\ pipes[u] # NoPipe
  /\ Commit([Cur EXCEPT !.pipes[u] = NoPipe])

\* The decoder emits the next PCM chunk of user u.
Feed(u) ==
  /\ hist.fed < MaxChunks
  /\ PipeLive(Cur, u)
  /\ Commit(HandleAudioData([Cur EXCEPT !.hist.fed = @ + 1], u, <<u, hist.fed + 1>>))

\* ------------------------------------------------------------- transport
\* joinChannel attaches its 'error' and Disconnected listeners to the
\* connection object after it stored the entry; the entry is removed only
\* together with the object's destruction.
HasListeners(s, c) == s.liveGen[c] # 0 /\ s.connections[c].gen = s.liveGen[c]

ReconnectPending(s, c) ==
  \E i \in DOMAIN s.tasks : s.tasks[i].kind = "reconnect" /\ s.tasks[i].ch = c

\* What leaveChannel(channel.id) is about to end, for the properties.
Lost(s, c) ==
  IF HasConnection(s, c)
  THEN [s EXCEPT !.hist.lost = @ \cup {s.connections[c].sessionId}]
  ELSE s

\* Disconnected handler up to `await Promise.race([entersState, entersState])`.
Disconnected(s, c) ==
  Spawn(s, [NewTask("reconnect", c, NoUser) EXCEPT
              !.gen = s.liveGen[c], !.pc = "awaitReconnect"])

\* Mutant of ReconnectResolved: a recovered connection is torn down like a
\* lost one.
ReconnectResolvedLeaves(s, i) ==
  LeaveChannel([s EXCEPT !.tasks[i].pc = "done", !.tasks[i].result = "ok",
                         !.hist.recovered = @ + 1], s.tasks[i].ch)

\* Disconnected handler after the race resolved: it logs and returns.
ReconnectResolved(s, i) ==
  [s EXCEPT !.tasks[i].pc = "done", !.tasks[i].result = "ok",
            !.hist.recovered = @ + 1]

\* Disconnected handler after the race rejected: leaveChannel(channel.id).
ReconnectRejected(s, i) ==
  LET s1 == [s EXCEPT !.tasks[i].pc = "done", !.tasks[i].result = "threw"]
  IN LeaveChannel(Lost(s1, s.tasks[i].ch), s.tasks[i].ch)

\* The transport of channel c drops to Disconnected.
Disconnect(c) ==
  /\ budget > 0
  /\ HasListeners(Cur, c)
  /\ ~ReconnectPending(Cur, c)
  /\ Commit(Disconnected(Event(Cur), c))

\* The connection reaches Signalling or Connecting within 5 s.
ReconnectOk(i) ==
  /\ tasks[i].pc = "awaitReconnect"
  /\ tasks[i].gen = liveGen[tasks[i].ch]
  /\ Commit(ReconnectResolved(Cur, i))

\* Both recovery waits time out (or the connection was destroyed meanwhile).
ReconnectTimeout(i) ==
  /\ tasks[i].pc = "awaitReconnect"
  /\ Commit(ReconnectRejected(Cur, i))

\* The connection emits 'error': leaveChannel(channel.id).
TransportError(c) ==
  /\ budget > 0
  /\ HasListeners(Cur, c)
  /\ Commit(LeaveChannel(Lost(Event(Cur), c), c))

\* ------------------------------------------------- stale notifications
\* Channel c had a session that is ended, and neither a connection entry nor
\* an active session is left for it.
TornDown(s, c) ==
  /\ ~HasConnection(s, c)
  /\ s.activeSessions[c] = 0
  /\ \E sid \in DOMAIN s.sessions :
       s.sessions[sid].channel = c /\ s.sessions[sid].status = "completed"

EndedSessions(s, c) ==
  {sid \in DOMAIN s.sessions :
     s.sessions[sid].channel = c /\ s.sessions[sid].status = "completed"}

Stale(s, kind) == [s EXCEPT !.budget = @ - 1, !.hist.stale = @ \cup {kind}]

\* handleUserJoin for a channel that was torn down.
StaleJoin(u, c) ==
  /\ budget > 0
  /\ TornDown(Cur, c)
  /\ Commit(HandleUserJoin(Stale(Cur, "join"), u, c))

\* handleUserLeave for a channel that was torn down.
StaleLeave(u, c) ==
  /\ budget > 0
  /\ TornDown(Cur, c)
  /\ Commit(HandleUserLeave(Stale(Cur, "leave"), u, c, NoChannel))

\* addParticipant with the id of the ended session.
StaleAdd(u, c) ==
  /\ budget > 0
  /\ TornDown(Cur, c)
  /\ \E sid \in EndedSessions(Cur, c) : Commit(AddParticipant(Stale(Cur, "add"), sid, u, c))

\* removeParticipant with the id of the ended session.
StaleRemove(u, c) ==
  /\ budget > 0
  /\ TornDown(Cur, c)
  /\ \E sid \in EndedSessions(Cur, c) : Commit(RemoveParticipant(Stale(Cur, "remove"), sid, u, c))

StaleNotification(u, c) ==
  StaleJoin(u, c) \/ StaleLeave(u, c) \/ StaleAdd(u, c) \/ StaleRemove(u, c)

\* SessionManager driven directly through its public methods.
ApiCreateSession(c) ==
  /\ budget > 0
  /\ Commit(CreateSession(Event(Cur), c))

ApiAddParticipant(u, c) ==
  /\ budget > 0
  /\ Commit(AddParticipant(Event(Cur), activeSessions[c], u, c))

ApiRemoveParticipant(u, c) ==
  /\ budget > 0
  /\ Commit(RemoveParticipant(Event(Cur), activeSessions[c], u, c))

ApiEndSession(c) ==
  /\ budget > 0
  /\ Commit(EndSession(Event(Cur), c))

\* ------------------------------------------------- calls and their outcome
\* How a call ends for its caller: "returned" (a value or undefined),
\* "threw" (an exception or a rejected promise), or "pending" (the promise
\* is not settled when the synchronous part is over).
Returned(s, op, out) == [s EXCEPT !.hist.ret = [op |-> op, out |-> out]]

\* joinChannel: `return this.connections.get(channel.id)` for a channel that
\* has an entry, else the wait for Ready.
JoinChannelOutcome(s, c) == IF HasConnection(s, c) THEN "returned" ELSE "pending"

\* createSession has one exit: `return sessionId`.
CreateSessionOutcome(s, c) == "returned"

\* startRecording has one exit: `return recording`.
StartRecordingOutcome(s, u) == "returned"

\* addParticipant: console.warn and `return` without a session, else the end
\* of the function body.
AddParticipantOutcome(s, c) == "returned"

CallJoinChannel(c) ==
  /\ budget > 0
  /\ Commit(Returned(JoinChannel(Event(Cur), c), "joinChannel", JoinChannelOutcome(Cur, c)))

CallCreateSession(c) ==
  /\ budget > 0
  /\ Commit(Returned(CreateSession(Event(Cur), c), "createSession", CreateSessionOutcome(Cur, c)))

CallStartRecording(u, sid) ==
  /\ budget > 0
  /\ Commit(Returned(StartRecording(Event(Cur), u, sid), "startRecording", StartRecordingOutcome(Cur, u)))

CallAddParticipant(u, c) ==
  /\ budget > 0
  /\ Commit(Returned(AddParticipant(Event(Cur), activeSessions[c], u, c), "addParticipant",
                     AddParticipantOutcome(Cur, c)))

NextCall ==
  \/ \E c \in scope.channels : CallJoinChannel(c)
  \/ \E c \in scope.channels : CallCreateSession(c)
  \/ \E u \in scope.users, sid \in DOMAIN sessions : CallStartRecording(u, sid)
  \/ \E u \in scope.users, c \in scope.channels : CallAddParticipant(u, c)
  \/ \E c \in scope.channels : JoinReady(c)
  \/ \E i \in DOMAIN tasks : JoinTimeout(i)

SpecCall == InitCall /\ [][NextCall]_vars

\* The decoder's 'data' listener: handleAudioData(userId, chunk).
CallHandleAudioData(u) ==
  /\ hist.fed < MaxChunks
  /\ Commit(HandleAudioData([Cur EXCEPT !.hist.fed = @ + 1], u, <<u, hist.fed + 1>>))

\* addParticipant's startRecording(user.id, user.username, sessionId) for the
\* active session of a channel that no endSession is ending.
StartForActive(u, c) ==
  /\ activeSessions[c] # 0
  /\ \A i \in DOMAIN tasks : tasks[i].kind # "end"
  /\ CallStartRecording(u, activeSessions[c])

\* The recorder fed and stopped through the session manager.
NextRec ==
  \/ \E c \in scope.channels : CallCreateSession(c)
  \/ \E u \in scope.users, c \in scope.channels : StartForActive(u, c)
  \/ \E u \in scope.users : CallHandleAudioData(u)
  \/ \E c \in scope.channels : ApiEndSession(c)
  \/ \E r \in DOMAIN recs : Flush(r)
  \/ \E i \in DOMAIN tasks, r \in DOMAIN recs, ok \in BOOLEAN : ConvertDone(i, r, ok)
  \/ \E i \in DOMAIN tasks, r \in DOMAIN recs, o \in TranscribeOutcomes : TranscribeDone(i, r, o)

SpecRec == InitRec /\ [][NextRec]_vars

\* --------------------------------------------------- TranscriptionService
\* File size limits of transcribeAudio and transcribeLargeFile, in bytes.
MaxSize == 20 * 1024 * 1024
LargeLimit == 50 * 1024 * 1024

\* Sizes of the converted asset around the two limits.
Sizes ==
  {0, 1} \cup {MaxSize + d : d \in -SizeDelta..SizeDelta}
         \cup {LargeLimit + d : d \in -SizeDelta..SizeDelta}

\* Frames the engine's call stack holds before a call throws RangeError.
StackLimits == 2..MaxStack

\* What a call hands to its caller: the kind of text of the result object
\* ("valid": the backend's text, "empty": '', "error": '[Transcription
\* failed: ...]', "largeError": '[Large file transcription failed]',
\* "tooLarge": '[Audio file too large for transcription (max 50MB)]'), the
\* number of generateContent requests made, whether the promise was
\* rejected instead, and whether the chain of calls behind it was ended by
\* the engine's RangeError (call stack exhausted).
Result(text, backend) ==
  [text |-> text, backend |-> backend, raised |-> FALSE, overflow |-> FALSE]

\* A catch block that runs with the stack exhausted: its console.error either
\* fits or throws RangeError itself, which rejects the promise of the call.
Caught(e, marker) ==
  IF e.over THEN [text |-> "none", backend |-> 0, raised |-> TRUE, overflow |-> TRUE]
  ELSE [Result(marker, 0) EXCEPT !.overflow = TRUE]

\* `return await p` inside try: a rejection of p is thrown at the await, when
\* the stack has unwound, and the catch block returns the marker.
Awaited(r, marker) ==
  IF r.raised THEN [Result(marker, r.backend) EXCEPT !.overflow = r.overflow] ELSE r

RECURSIVE TranscribeAudio(_, _), TranscribeLargeFile(_, _)
\* Mutant of TranscribeAudio: without the file size limit.
TranscribeAudioNoLimit(e, depth) ==
  IF e.size = 0 THEN Result("empty", 0)
  ELSE Result(e.answer, 1)

\* transcribeAudio as frame number depth of the stack; e holds the file size,
\* the stack limit, the backend's answer and whether a catch block that runs
\* on the exhausted stack overflows again.
TranscribeAudio(e, depth) ==
  IF e.size = 0 THEN Result("empty", 0)
  ELSE IF e.size > MaxSize
    THEN IF depth = e.limit THEN Caught(e, "error")
         ELSE Awaited(TranscribeLargeFile(e, depth + 1), "error")
  ELSE Result(e.answer, 1)

TranscribeLargeFile(e, depth) ==
  IF e.size > LargeLimit THEN Result("tooLarge", 0)
  ELSE IF depth = e.limit THEN Caught(e, "largeError")
  ELSE Awaited(TranscribeAudio(e, depth + 1), "largeError")

\* processRecording's call: transcribeAudio(recording.wavPath).
CallTranscribeAudio(size, limit, answer, over) ==
  /\ budget > 0
  /\ LET e == [size |-> size, limit |-> limit, answer |-> answer, over |-> over]
     IN Commit(Returned(Event(Cur), "transcribeAudio", [in |-> e, res |-> TranscribeAudio(e, 1)]))

NextSize ==
  \E size \in Sizes, limit \in StackLimits, answer \in TranscribeOutcomes, over \in BOOLEAN :
    CallTranscribeAudio(size, limit, answer, over)

SpecSize == InitSize /\ [][NextSize]_vars

Next ==
  \/ \E u \in scope.users, c \in scope.channels : UserJoins(u, c)
  \/ \E u \in scope.users : UserLeaves(u)
  \/ \E c \in scope.channels : LeaveCommand(c)
  \/ Completions

NextMulti ==
  \/ Next
  \/ \E u \in scope.users, c \in scope.channels : UserSwitches(u, c)

Spec == Init /\ [][Next]_vars

NextApi ==
  \/ \E c \in scope.channels : ApiCreateSession(c)
  \/ \E u \in scope.users, c \in scope.channels : ApiAddParticipant(u, c)
  \/ \E u \in scope.users, c \in scope.channels : ApiRemoveParticipant(u, c)
  \/ \E c \in scope.channels : ApiEndSession(c)
  \/ \E r \in DOMAIN recs : Flush(r)
  \/ \E i \in DOMAIN tasks, r \in DOMAIN recs, ok \in BOOLEAN : ConvertDone(i, r, ok)
  \/ \E i \in DOMAIN tasks, r \in DOMAIN recs, o \in TranscribeOutcomes : TranscribeDone(i, r, o)

NextLive ==
  \/ Next
  \/ \E i \in DOMAIN tasks, r \in DOMAIN recs : ConvertHang(i, r)

SpecApi == InitApi /\ [][NextApi]_vars

SpecApiMulti == InitApiMulti /\ [][NextApi]_vars

\* The event loop runs every callback that is ready, and the transport, the
\* write streams and the backend settle what was asked of them; a conversion
\* that hangs is the one completion that never comes.
\* A join is pending while some joinChannel call waits in entersState.
JoinPending ==
  \E i \in DOMAIN tasks : tasks[i].kind = "join" /\ tasks[i].pc = "awaitReady"

\* entersState settles: the connection becomes Ready or the 30 s run out.
JoinSettles ==
  \/ \E c \in scope.channels : JoinReady(c)
  \/ \E i \in DOMAIN tasks : JoinTimeout(i)

\* Weak fairness of every completion. JoinSettles is enabled exactly when
\* JoinPending holds, so its weak fairness is written out with that
\* predicate in the place of ENABLED.
Fairness ==
  /\ WF_vars(\E c \in scope.channels : TimerFire(c))
  /\ WF_vars(\E r \in DOMAIN recs : Flush(r))
  /\ WF_vars(\E i \in DOMAIN tasks, r \in DOMAIN recs, ok \in BOOLEAN : ConvertDone(i, r, ok))
  /\ WF_vars(\E i \in DOMAIN tasks, r \in DOMAIN recs, o \in TranscribeOutcomes : TranscribeDone(i, r, o))
  /\ ([]<>(~JoinPending) \/ []<><<JoinSettles>>_vars)

SpecLive == InitLive /\ [][NextLive]_vars /\ Fairness

\* The bot under the same fairness, every conversion settling.
SpecFair == InitLive /\ [][Next]_vars /\ Fairness

\* The bot with a transport that disconnects, recovers or fails.
NextNet ==
  \/ Next
  \/ \E c \in scope.channels : Disconnect(c)
  \/ \E i \in DOMAIN tasks : ReconnectOk(i)
  \/ \E i \in DOMAIN tasks : ReconnectTimeout(i)
  \/ \E c \in scope.channels : TransportError(c)

SpecNet == InitNet /\ [][NextNet]_vars

RecoveryPending ==
  \E i \in DOMAIN tasks : tasks[i].pc = "awaitReconnect"

RecoverySettles ==
  \/ \E i \in DOMAIN tasks : ReconnectOk(i)
  \/ \E i \in DOMAIN tasks : ReconnectTimeout(i)

\* The recovery race settles within its 5 s: RecoverySettles is enabled
\* exactly when RecoveryPending holds.
FairnessNet ==
  /\ Fairness
  /\ ([]<>(~RecoveryPending) \/ []<><<RecoverySettles>>_vars)

SpecNetLive == InitNet /\ [][NextNet]_vars /\ FairnessNet

\* The bot with the users' audio.
NextAudio ==
  \/ Next
  \/ \E u \in scope.users : SpeakStart(u)
  \/ \E u \in scope.users : SpeakEnd(u)
  \/ \E u \in scope.users : Feed(u)

SpecAudio == InitAudio /\ [][NextAudio]_vars

\* The bot with notifications that arrive for a torn-down channel.
NextStale ==
  \/ Next
  \/ \E u \in scope.users, c \in scope.channels : StaleJoin(u, c)
  \/ \E u \in scope.users, c \in scope.channels : StaleLeave(u, c)
  \/ \E u \in scope.users, c \in scope.channels : StaleAdd(u, c)
  \/ \E u \in scope.users, c \in scope.channels : StaleRemove(u, c)

SpecStale == InitStale /\ [][NextStale]_vars

SpecSolo == InitSolo /\ [][Next]_vars

SpecMulti == InitMulti /\ [][NextMulti]_vars

\* ------------------------------------------------------------- properties
Terminal == {"Finalized", "Failed"}

Quiescent == tasks = <<>> /\ \A c \in Channels : timers[c] = 0

EndInFlight(sid) ==
  \E i \in DOMAIN tasks : tasks[i].kind \in {"leave", "end"} /\ tasks[i].sess = sid

OpenSessions(c) ==
  {sid \in DOMAIN sessions : sessions[sid].channel = c /\ sessions[sid].status = "active"}

OpenCaptures(sid, u) ==
  {r \in DOMAIN recs : recs[r].sessionId = sid /\ recs[r].userId = u
                       /\ recs[r].state = "Recording"}

HasTranscript(r, kind) ==
  \E row \in BagToSet(dbTranscriptions) : row.rec = r /\ row.kind = kind

\* C1: for every channel, at most one session created by createSession has not
\* yet been marked completed by endSession.
C1_OneOpenSessionPerChannel ==
  \A c \in Channels : Cardinality(OpenSessions(c)) <= 1

\* C2: for every (session, user) pair at most one recording started by
\* startRecording has a write stream that stopRecording has not ended.
C2_OneOpenCapturePerUser ==
  \A sid \in DOMAIN sessions, u \in Users : Cardinality(OpenCaptures(sid, u)) <= 1

\* addParticipant has already been called for u in c's active session and no
\* removeParticipant has been called for u since.
Present(u, c) ==
  /\ activeSessions[c] # 0
  /\ u \in sessions[activeSessions[c]].participants
  /\ userSessions[u] = activeSessions[c]
  /\ recordings[u] # 0
  /\ recs[recordings[u]].sessionId = activeSessions[c]
  /\ recs[recordings[u]].state = "Recording"
  /\ ~LeaveInFlight(Cur, u)

\* C3: a second addParticipant for a user who is present adds no participant
\* row, does not touch the user's tracking entry and starts no recording.
C3_AddParticipantIdempotent ==
  [][\A u \in Users, c \in Channels :
       (Present(u, c) /\ ApiAddParticipant(u, c)) =>
         /\ dbParticipants' = dbParticipants
         /\ recs' = recs
         /\ recordings' = recordings
         /\ userSessions' = userSessions]_vars

\* C4: 'sessionEnded' is emitted exactly once for every session: never twice,
\* and once nothing is in flight and the channel's connection is gone, once.
C4_SessionEndedExactlyOnce ==
  \A sid \in DOMAIN sessions :
    /\ emitted[sid] <= 1
    /\ (Quiescent /\ ~HasConnection(Cur, sessions[sid].channel)) => emitted[sid] = 1

\* C5: when 'sessionEnded' has been emitted for a session, every recording of
\* the session that was open when its end was requested is terminal.
C5_BarrierBeforeSessionEnded ==
  \A r \in DOMAIN recs :
    (recs[r].endedBy > 0 /\ recs[r].sessionId = recs[r].endedBy
       /\ emitted[recs[r].endedBy] > 0)
      => recs[r].state \in Terminal

\* C6: no removeParticipant is still stopping, converting or transcribing a
\* capture of a session whose endSession has completed or whose 'sessionEnded'
\* has been emitted.
C6_BarrierIncludesDeparted ==
  \A i \in DOMAIN tasks :
    tasks[i].kind = "userLeave" =>
      /\ sessions[tasks[i].sess].status = "active"
      /\ emitted[tasks[i].sess] = 0

\* C7: once the endSession during which a capture's conversion failed is over,
\* the session is removed from the active sessions and marked ended, the
\* connection is removed, and the other captures' transcripts are recorded.
C7_ClosedDespiteConversionFailure ==
  \A r \in DOMAIN recs :
    LET sid == recs[r].endedBy
    IN (sid > 0 /\ recs[r].state = "Failed" /\ ~EndInFlight(sid)) =>
         /\ sessions[sid].status = "completed"
         /\ activeSessions[sessions[sid].channel] # sid
         /\ connections[sessions[sid].channel].sessionId # sid
         /\ \A r2 \in DOMAIN recs :
              (recs[r2].endedBy = sid /\ recs[r2].state = "Finalized")
                => recs[r2].tr # "none"

HungEnd(sid) ==
  \E i \in DOMAIN tasks :
    /\ tasks[i].kind = "leave"
    /\ tasks[i].sess = sid
    /\ \E p \in tasks[i].stops : p[2] = "hung"

ConversionFailed == \E r \in DOMAIN recs : recs[r].state = "Failed"

SessionEnded(sid) ==
  /\ sid \in DOMAIN sessions
  /\ activeSessions[sessions[sid].channel] # sid
  /\ emitted[sid] >= 1

\* C8: a session end that waits on a conversion that never settles still
\* completes: the session is eventually removed from the active sessions and
\* its 'sessionEnded' is eventually emitted (runs in which a conversion fails
\* are left to C7).
C8_EndsDespiteStuckConversion ==
  \A sid \in 1..MaxEventsLive :
    [](HungEnd(sid) => <>(SessionEnded(sid) \/ ConversionFailed))

LatestRec(r) == \A r2 \in DOMAIN recs : recs[r2].userId = recs[r].userId => r2 <= r

\* C10: a user who re-joined while the handling of their leave was still
\* awaiting is, once all handlers have finished, in the session's participant
\* set, has a user-session entry and has an open recording (here: when no
\* conversion failed).
C10_RejoinAfterLeaveTakesEffect ==
  \A r \in DOMAIN recs :
    LET u == recs[r].userId
        sid == recs[r].sessionId
        c == sessions[sid].channel
    IN (recs[r].during /\ LatestRec(r) /\ tasks = <<>> /\ loc[u] = c
          /\ activeSessions[c] = sid /\ connections[c].sessionId = sid
          /\ \A r2 \in DOMAIN recs : recs[r2].state # "Failed") =>
         /\ u \in sessions[sid].participants
         /\ userSessions[u] = sid
         /\ recordings[u] = r
         /\ recs[r].state = "Recording"

\* C11: an auto-leave timeout that was armed before a human re-joined the
\* channel ends nothing when it fires: it requests no session end, whether or
\* not the channel happens to be empty again at that moment.
C11_RejoinCancelsPendingEnd ==
  [][\A c \in Channels :
       (hist.rejoined[c] > 0 /\ TimerFire(c)) =>
         /\ connections' = connections
         /\ activeSessions' = activeSessions
         /\ sessions' = sessions
         /\ recs' = recs
         /\ emitted' = emitted
         /\ tasks' = tasks]_vars

\* The bot records channel c, whose session has had a participant, and no
\* human is left in the channel.
EmptyRecorded(c) ==
  /\ Members(Cur, c) = {}
  /\ HasConnection(Cur, c)
  /\ activeSessions[c] # 0
  /\ \E row \in BagToSet(dbParticipants) : row.session_id = connections[c].sessionId

Closed(c) == ~HasConnection(Cur, c) /\ activeSessions[c] = 0

\* A conversion failed under an endSession (the case of C7).
EndFailed == \E r \in DOMAIN recs : recs[r].state = "Failed" /\ recs[r].endedBy > 0

\* C12: once the last human has left a recorded channel, either a human
\* re-joins or the channel's session is eventually ended and its connection
\* removed, whether the departing user's capture stops, converts and
\* transcribes well or not (runs with a second session of the channel or with
\* a failure inside endSession are left to C1 and C7).
C12_EmptyChannelEventuallyEnded ==
  \A c \in Channels :
    []((EmptyRecorded(c) /\ Len(sessions) = 1) =>
         <>(Members(Cur, c) # {} \/ Closed(c) \/ Len(sessions) > 1 \/ EndFailed))

\* C13: when a recovery wait of the Disconnected handler resolves, the
\* connection entry, the active session, its participants and the recordings
\* are what they were, and no leaveChannel is started.
C13_RecoveredDisconnectKeepsState ==
  [][\A i \in DOMAIN tasks :
       ReconnectOk(i) =>
         /\ connections' = connections
         /\ liveGen' = liveGen
         /\ activeSessions' = activeSessions
         /\ sessions' = sessions
         /\ userSessions' = userSessions
         /\ recordings' = recordings
         /\ recs' = recs
         /\ dbParticipants' = dbParticipants
         /\ emitted' = emitted
         /\ timers' = timers
         /\ \A j \in DOMAIN tasks' :
              tasks'[j].kind = "leave" => \E k \in DOMAIN tasks : tasks[k] = tasks'[j]]_vars

\* A disconnect of a connection with an active session and an open recording
\* was recovered.
C13_Witness ==
  /\ hist.recovered > 0
  /\ \E c \in Channels :
       /\ HasConnection(Cur, c)
       /\ activeSessions[c] = connections[c].sessionId
       /\ \E u \in Users :
            /\ recordings[u] # 0
            /\ recs[recordings[u]].state = "Recording"
            /\ u \in sessions[activeSessions[c]].participants

\* C14: a session whose connection was lost (both recovery waits timed out,
\* or the transport reported an error) is eventually ended and its connection
\* entry eventually removed.
C14_LostConnectionEndsSession ==
  \A sid \in 1..MaxEventsNet :
    [](sid \in hist.lost =>
         <>(/\ sid \in DOMAIN sessions
            /\ sessions[sid].status = "completed"
            /\ connections[sessions[sid].channel].sessionId # sid))

\* C15: once leaveChannel has completed for a session ('sessionEnded'
\* emitted), the recorder holds no open recording that was started under that
\* session.
C15_NoOpenRecordingAfterLeave ==
  \A u \in Users :
    LET r == recordings[u]
    IN (r # 0 /\ recs[r].state = "Recording") => emitted[recs[r].sessionId] = 0

\* C16: endSession / leaveChannel of one channel stops no recording that
\* belongs to the session of another channel.
C16_EndLeavesOtherChannelsAlone ==
  \A r \in DOMAIN recs :
    recs[r].endedBy > 0 =>
      sessions[recs[r].endedBy].channel = sessions[recs[r].sessionId].channel

\* C18: no user is in the participant sets of the active sessions of two
\* channels (two active sessions of one channel are the case of C1).
C18_OneActiveSessionPerUser ==
  \A u \in Users, c1 \in Channels, c2 \in Channels :
    (/\ c1 # c2
     /\ activeSessions[c1] # 0
     /\ activeSessions[c2] # 0
     /\ u \in sessions[activeSessions[c1]].participants)
      => u \notin sessions[activeSessions[c2]].participants

OpenRows(sid) ==
  {row \in BagToSet(dbParticipants) : row.session_id = sid /\ ~row.left}

\* C19: a session that endSession has completed has no participant row
\* without a leave time, and no user-session entry refers to it.
C19_EndedSessionFullyClosed ==
  \A sid \in DOMAIN sessions :
    sessions[sid].status = "completed" =>
      /\ OpenRows(sid) = {}
      /\ \A u \in Users : userSessions[u] # sid

\* C17: a chunk fed for a user is appended to the sink of that user's open
\* capture, after the chunks written before, and to no other sink.
C17_ChunksInOrderPerUser ==
  [][\A u \in Users :
       Feed(u) =>
         \A r \in DOMAIN recs :
           recs'[r].sink =
             IF recs[r].userId = u /\ recs[r].state = "Recording" /\ LatestRec(r)
             THEN Append(recs[r].sink, <<u, hist.fed + 1>>)
             ELSE recs[r].sink]_vars

\* C20: a participant notification for a channel whose connection and
\* session were torn down creates and modifies nothing: no session, no
\* participant row, no user-session entry, no recording, no timer, no handler
\* left in flight.
C20_StaleNotificationIgnored ==
  [][\A u \in Users, c \in Channels :
       StaleNotification(u, c) =>
         /\ connections' = connections
         /\ liveGen' = liveGen
         /\ activeSessions' = activeSessions
         /\ sessions' = sessions
         /\ userSessions' = userSessions
         /\ recordings' = recordings
         /\ recs' = recs
         /\ dbParticipants' = dbParticipants
         /\ timers' = timers
         /\ tasks' = tasks]_vars

\* Notifications of two kinds were delivered for a torn-down channel.
C20_Witness ==
  /\ Cardinality(hist.stale) >= 2
  /\ \E c \in Channels : TornDown(Cur, c)

\* The number of participant rows of session sid in the table.
RowCount(table, sid) ==
  LET rows == {row \in BagToSet(table) : row.session_id = sid}
      Sum(acc, row) == acc + CopiesIn(row, table)
  IN FoldSet(Sum, 0, rows)

\* C21: when the one joinChannel call that waits on a channel's connection
\* resumes at Ready and one human is in the channel, exactly one session is
\* created, it is the channel's active session and the one of the stored
\* connection, it has exactly one participant row (that user's, without a
\* leave time) and exactly one recording was started, for that user.
C21_SingleJoinStartsOneSession ==
  [][\A c \in Channels, u \in Users :
       (/\ connections[c] = NoConnection
        /\ connections'[c] # NoConnection
        /\ Cardinality(AwaitingReady(Cur, c)) = 1
        /\ Members(Cur, c) = {u})
       => LET sid == Len(sessions) + 1
              r == Len(recs) + 1
          IN /\ Len(sessions') = sid
             /\ sessions'[sid].channel = c
             /\ sessions'[sid].status = "active"
             /\ sessions'[sid].participants = {u}
             /\ activeSessions'[c] = sid
             /\ connections'[c].sessionId = sid
             /\ RowCount(dbParticipants', sid) = 1
             /\ CopiesIn([session_id |-> sid, user_id |-> u, left |-> FALSE], dbParticipants') = 1
             /\ userSessions'[u] = sid
             /\ Len(recs') = r
             /\ recs'[r].userId = u
             /\ recs'[r].sessionId = sid
             /\ recs'[r].state = "Recording"
             /\ recordings'[u] = r]_vars

\* One user joined the empty channel, the connection became Ready, and the
\* channel has its session with that user recorded.
C21_Witness ==
  /\ Len(sessions) = 1
  /\ Len(recs) = 1
  /\ tasks = <<>>
  /\ \E c \in Channels, u \in Users :
       /\ HasConnection(Cur, c)
       /\ Members(Cur, c) = {u}
       /\ sessions[1].participants = {u}
       /\ recordings[u] = 1

\* C22: a joinChannel call whose wait for Ready times out is over and has
\* stored no connection entry, created no session, added no participant and
\* started no recording.
C22_JoinTimeoutLeavesNoTrace ==
  [][\A i \in DOMAIN tasks :
       JoinTimeout(i) =>
         /\ connections' = connections
         /\ connections[tasks[i].ch] = NoConnection
         /\ sessions' = sessions
         /\ activeSessions' = activeSessions
         /\ userSessions' = userSessions
         /\ dbParticipants' = dbParticipants
         /\ recordings' = recordings
         /\ recs' = recs
         /\ Len(tasks') = Len(tasks) - 1]_vars

\* The only joinChannel call for a channel with a member timed out: the
\* transport object is there, nothing waits on it, and nothing was stored.
C22_Witness ==
  \E c \in Channels :
    /\ liveGen[c] # 0
    /\ AwaitingReady(Cur, c) = {}
    /\ Members(Cur, c) # {}
    /\ ~HasConnection(Cur, c)
    /\ sessions = <<>>
    /\ recs = <<>>

\* C23: joinChannel for a channel that has a stored connection does not
\* return normally: it fails, and stores nothing.
C23_JoinWhenConnectedFails ==
  [][\A c \in Channels :
       (HasConnection(Cur, c) /\ CallJoinChannel(c)) =>
         /\ hist'.ret = [op |-> "joinChannel", out |-> "threw"]
         /\ connections' = connections]_vars

\* C24: createSession for a channel that has an active session fails and
\* leaves the active session, its participant set and its id as they were.
C24_CreateWhenActiveFails ==
  [][\A c \in Channels :
       (activeSessions[c] # 0 /\ CallCreateSession(c)) =>
         /\ hist'.ret = [op |-> "createSession", out |-> "threw"]
         /\ activeSessions' = activeSessions
         /\ sessions' = sessions]_vars

\* C25: startRecording for a user whose recording of the same session is open
\* fails and leaves the recorder's entry, the recording and its sink as they
\* were.
C25_StartWhenOpenFails ==
  [][\A u \in Users, sid \in DOMAIN sessions :
       (/\ IsRecording(Cur, u)
        /\ recs[recordings[u]].state = "Recording"
        /\ recs[recordings[u]].sessionId = sid
        /\ CallStartRecording(u, sid)) =>
         /\ hist'.ret = [op |-> "startRecording", out |-> "threw"]
         /\ recordings' = recordings
         /\ recs' = recs]_vars

\* C26: addParticipant for a channel without an active session fails towards
\* its caller and adds no participant row, no user-session entry and no
\* recording.
C26_AddWithoutSessionFails ==
  [][\A u \in Users, c \in Channels :
       (activeSessions[c] = 0 /\ CallAddParticipant(u, c)) =>
         /\ hist'.ret = [op |-> "addParticipant", out |-> "threw"]
         /\ sessions' = sessions
         /\ dbParticipants' = dbParticipants
         /\ userSessions' = userSessions
         /\ recordings' = recordings
         /\ recs' = recs]_vars

\* C27: removeParticipant for a channel and a user who is not in the
\* participant set of that channel's active session (or a channel without
\* one) stops no recording, writes no leave time, removes no user-session
\* entry and leaves nothing in flight, also when the user is a participant of
\* another channel's active session.
C27_RemoveAbsentIsNoOp ==
  [][\A u \in Users, c \in Channels :
       (/\ activeSessions[c] = 0 \/ u \notin sessions[activeSessions[c]].participants
        /\ ApiRemoveParticipant(u, c)) =>
         /\ recs' = recs
         /\ recordings' = recordings
         /\ dbParticipants' = dbParticipants
         /\ userSessions' = userSessions
         /\ sessions' = sessions
         /\ tasks' = tasks]_vars

ErrorMarker(text) == text \in {"error", "largeError", "tooLarge"}

TranscriptCount(r) ==
  LET rows == {row \in BagToSet(dbTranscriptions) : row.rec = r}
      Sum(acc, row) == acc + CopiesIn(row, dbTranscriptions)
  IN FoldSet(Sum, 0, rows)

Processing(r) == \E i \in DOMAIN tasks : r \in StopRecs(tasks[i])

\* C29: once a session is completed, every recording of it whose conversion
\* succeeded and that no handler is still processing has exactly one
\* transcription row.
C29_OneTranscriptPerCapture ==
  \A r \in DOMAIN recs :
    (/\ recs[r].state = "Finalized"
     /\ sessions[recs[r].sessionId].status = "completed"
     /\ ~Processing(r))
      => TranscriptCount(r) = 1

\* C30: once a session is completed, every recording of it that holds a
\* chunk accepted by handleAudioData has had its stream ended, so that the raw
\* file is flushed and converted; this includes a recording that a second
\* startRecording for the same user replaced in the recorder's map.
C30_NoCapturedAudioDiscarded ==
  \A r \in DOMAIN recs :
    (recs[r].sink # <<>> /\ sessions[recs[r].sessionId].status = "completed")
      => recs[r].state # "Recording"

\* processRecording has run to its end for recording r: a transcription row
\* was saved, or the backend's answer to an endSession was taken.
Processed(r) == TranscriptCount(r) > 0 \/ recs[r].tr # "none"

\* C31: once processRecording has returned for a converted file and no
\* handler still processes the recording, the transcription side has deleted
\* the file, whatever the backend's answer was.
C31_ConvertedAssetCleanedUp ==
  \A r \in DOMAIN recs :
    (recs[r].state = "Finalized" /\ Processed(r) /\ ~Processing(r))
      => recs[r].wav = "deleted"

\* Some stopRecording call waits for the conversion of recording r.
Converts(r) == \E i \in DOMAIN tasks : <<r, "conv">> \in tasks[i].stops

OtherBusy(u) ==
  \E q \in DOMAIN recs : recs[q].userId # u /\ recs[q].state \in {"Stopping", "Converting"}

\* C33: the stops a handler requested together have all been requested at
\* once (no stream is still recording while the handler waits for another),
\* and a chunk fed for a user whose open recording the recorder holds is
\* appended to that recording's sink while another user's recording is
\* stopping or converting.
C33_StopsDoNotBlockOtherUsers ==
  /\ [](\A i \in DOMAIN tasks : \A r \in StopRecs(tasks[i]) : recs[r].state # "Recording")
  /\ [][\A u \in Users :
          (/\ Feed(u)
           /\ OtherBusy(u)
           /\ IsRecording(Cur, u)
           /\ recs[recordings[u]].state = "Recording")
            => recs'[recordings[u]].sink = Append(recs[recordings[u]].sink, <<u, hist.fed + 1>>)]_vars

\* A user's open recording holds a chunk while the other user's recording is
\* stopping or converting.
C33_Witness ==
  \E u \in Users :
    /\ OtherBusy(u)
    /\ IsRecording(Cur, u)
    /\ recs[recordings[u]].state = "Recording"
    /\ recs[recordings[u]].sink # <<>>
    /\ PipeLive(Cur, u)

\* C34: no chunk is written to the stream of a recording after stopRecording
\* has ended that stream.
C34_NoWriteAfterStop ==
  \A r \in DOMAIN recs : recs[r].late = 0

\* C35: every transcription row carries the session id under which its
\* recording was started.
C35_TranscriptAttributedToOwnSession ==
  \A row \in BagToSet(dbTranscriptions) : row.session_id = recs[row.rec].sessionId

\* C36: a channel with a stored connection entry has an active session, and
\* its id is the sessionId of the entry.
C36_ConnectionHasItsActiveSession ==
  \A c \in Channels :
    HasConnection(Cur, c) => activeSessions[c] = connections[c].sessionId

\* C37: when no handler is in progress, every user in the participant set of
\* a channel's active session has a user-session entry for that session and
\* an open recording that was started under it.
C37_ParticipantsTrackedAndRecorded ==
  \A c \in Channels, u \in Users :
    (/\ tasks = <<>>
     /\ activeSessions[c] # 0
     /\ u \in sessions[activeSessions[c]].participants)
      => /\ userSessions[u] = activeSessions[c]
         /\ recordings[u] # 0
         /\ recs[recordings[u]].sessionId = activeSessions[c]
         /\ recs[recordings[u]].state = "Recording"

\* C38: transcribeAudio returns a result for every file size, and the calls
\* between transcribeAudio and transcribeLargeFile come to an end by
\* themselves, not by exhausting the engine's call stack.
C38_TranscribeAudioTerminates ==
  hist.ret.op = "transcribeAudio" =>
    /\ ~hist.ret.out.res.raised
    /\ ~hist.ret.out.res.overflow

\* The users for whom a participants row of session sid was ever inserted.
EverParticipants(sid) ==
  {row.user_id : row \in {x \in BagToSet(dbParticipants) : x.session_id = sid}}

\* C39: the participant count stored with a completed session is the number
\* of distinct users who were participants of it at any time.
C39_ParticipantCountCountsEveryone ==
  \A sid \in DOMAIN sessions :
    sessions[sid].status = "completed" =>
      sessions[sid].participant_count = Cardinality(EverParticipants(sid))

\* How many times generateSessionReport was entered for session sid.
ReportCount(sid) == CopiesIn(sid, hist.reports)

\* C40: report generation is triggered at most once for every ended session,
\* also when the session is ended through the leave command.
C40_ReportGeneratedAtMostOnce ==
  \A sid \in DOMAIN sessions :
    sessions[sid].status = "completed" => ReportCount(sid) <= 1

====
